---- MODULE Spec2Model ----
(***************************************************************************)
(* infragpt: the command pipeline of src/infragpt/main.py.                 *)
(*                                                                         *)
(* A string is a sequence of one-character strings, so that splitting,     *)
(* trimming, searching and replacing are computed character by character   *)
(* the way the Python string methods compute them.                         *)
(***************************************************************************)
EXTENDS Naturals, Sequences, FiniteSets, TLC

VARIABLES
    result,              \* the raw text handed to handle_command_result
    clipboard,           \* CLIPBOARD_AVAILABLE
    pc,                  \* where the pipeline is waiting
    commands,            \* split_commands(result)
    processed_commands,  \* the first loop's output
    i,                   \* index (from 1) of the command the current loop is at
    pfp,                 \* the locals of the running prompt_for_parameters call
    asked,               \* history: every prompt answered so far, with its answer
    effects,             \* history: what was handed to the clipboard and the shell
    warned,              \* history: number of "Could not parse parameter info" warnings
    rejoined             \* split_commands of the newline-joined commands (split study)

vars == <<result, clipboard, pc, commands, processed_commands, i, pfp,
          asked, effects, warned, rejoined>>

-----------------------------------------------------------------------------
(* Bounds of the model.                                                    *)

MaxPieces == 4      \* pieces a raw text of the split study is made of
MaxTokens == 3      \* tokens of a command of the resolver study
MaxCmds   == 3      \* lines of a raw text of the pipeline study
MaxChunks == 2      \* chunks of a describeParameters response

-----------------------------------------------------------------------------
(* Python string primitives.                                               *)

Range(s) == {s[n] : n \in 1..Len(s)}

\* str.isspace() on the characters in use
WHITESPACE == {" ", "\t", "\n", "\r"}

\* the line boundaries of str.splitlines() in use
LINE_BREAKS == {"\n", "\r"}

\* the character class [A-Z_]
UPPER_ == {"A", "B", "C", "D", "E", "F", "G", "H", "I", "J", "K", "L", "M",
           "N", "O", "P", "Q", "R", "S", "T", "U", "V", "W", "X", "Y", "Z", "_"}

\* sub occurs in s starting at position p
occurs_at(s, sub, p) ==
    /\ p >= 1
    /\ p + Len(sub) - 1 <= Len(s)
    /\ \A j \in 1..Len(sub) : s[p + j - 1] = sub[j]

\* sub in s
contains(s, sub) == \E p \in 1..(Len(s) + 1) : occurs_at(s, sub, p)

\* s.startswith(sub)
startswith(s, sub) == occurs_at(s, sub, 1)

\* the least element of a non-empty set of positions
least(S) == CHOOSE n \in S : \A m \in S : n <= m

\* the greatest element of a non-empty set of positions
greatest(S) == CHOOSE n \in S : \A m \in S : n >= m

\* s[p..] , empty from the end on
suffix(s, p) == IF p > Len(s) THEN <<>> ELSE SubSeq(s, p, Len(s))

\* s[p..q-1], empty when q <= p
slice(s, p, q) == IF q <= p THEN <<>> ELSE SubSeq(s, p, q - 1)

\* s.lstrip(): from the first character that is not whitespace
lstrip(s) ==
    LET inked == {n \in 1..Len(s) : s[n] \notin WHITESPACE}
    IN  IF inked = {} THEN <<>> ELSE suffix(s, least(inked))

\* s.rstrip(): up to the last character that is not whitespace
rstrip(s) ==
    LET inked == {n \in 1..Len(s) : s[n] \notin WHITESPACE}
    IN  IF inked = {} THEN <<>> ELSE SubSeq(s, 1, greatest(inked))

\* s.strip()
strip(s) == rstrip(lstrip(s))

\* s.splitlines(): "\r\n" is one boundary; no empty last line
RECURSIVE splitlines_from(_, _)
splitlines_from(s, p) ==
    IF p > Len(s) THEN <<>>
    ELSE LET breaks == {n \in p..Len(s) : s[n] \in LINE_BREAKS}
         IN  IF breaks = {} THEN <<suffix(s, p)>>
             ELSE LET b == least(breaks)
                      w == IF s[b] = "\r" /\ b < Len(s) /\ s[b + 1] = "\n"
                           THEN 2 ELSE 1
                  IN  <<slice(s, p, b)>> \o splitlines_from(s, b + w)

splitlines(s) == splitlines_from(s, 1)

\* s.split(): the maximal runs of non-whitespace
RECURSIVE split_from(_, _)
split_from(s, p) ==
    LET inked == {n \in p..Len(s) : s[n] \notin WHITESPACE}
    IN  IF inked = {} THEN <<>>
        ELSE LET a      == least(inked)
                 blanks == {n \in a..Len(s) : s[n] \in WHITESPACE}
                 e      == IF blanks = {} THEN Len(s) + 1 ELSE least(blanks)
             IN  <<slice(s, a, e)>> \o split_from(s, e)

split(s) == split_from(s, 1)

\* sep.join(parts)
RECURSIVE join(_, _)
join(parts, sep) ==
    IF parts = <<>> THEN <<>>
    ELSE IF Len(parts) = 1 THEN parts[1]
    ELSE parts[1] \o sep \o join(Tail(parts), sep)

\* s.replace(old, new), old not empty: left to right, occurrences not overlapping
RECURSIVE replace_from(_, _, _, _)
replace_from(s, old, new, p) ==
    LET found == {n \in p..Len(s) : occurs_at(s, old, n)}
    IN  IF found = {} THEN suffix(s, p)
        ELSE LET o == least(found)
             IN  slice(s, p, o) \o new \o replace_from(s, old, new, o + Len(old))

replace(s, old, new) == replace_from(s, old, new, 1)

\* the length of the run of [A-Z_] characters of s that starts at p
upper_run(s, p) ==
    LET stops == {n \in p..Len(s) : s[n] \notin UPPER_}
    IN  IF p > Len(s) THEN 0
        ELSE IF stops = {} THEN Len(s) + 1 - p
        ELSE least(stops) - p

\* the pattern \[([A-Z_]+)\] matches s at position p
match_at(s, p) ==
    LET n == upper_run(s, p + 1)
    IN  /\ p <= Len(s)
        /\ s[p] = "["
        /\ n >= 1
        /\ p + n + 1 <= Len(s)
        /\ s[p + n + 1] = "]"

\* re.findall(r'\[([A-Z_]+)\]', s): the names, left to right, matches not overlapping
RECURSIVE findall_from(_, _)
findall_from(s, p) ==
    LET found == {n \in p..Len(s) : match_at(s, n)}
    IN  IF found = {} THEN <<>>
        ELSE LET m == least(found)
                 n == upper_run(s, m + 1)
             IN  <<SubSeq(s, m + 1, m + n)>> \o findall_from(s, m + n + 2)

findall(s) == findall_from(s, 1)

\* f"[{param}]"
bracketed(param) == <<"[">> \o param \o <<"]">>

-----------------------------------------------------------------------------
(* split_commands                                                          *)

SENTINEL ==
    <<"R", "e", "q", "u", "e", "s", "t", " ", "c", "a", "n", "n", "o", "t", " ",
      "b", "e", " ", "f", "u", "l", "f", "i", "l", "l", "e", "d", ".">>

\* mutant: trims the left side only
RECURSIVE stripped_nonempty_lstrip(_)
stripped_nonempty_lstrip(lines) ==
    IF lines = <<>> THEN <<>>
    ELSE IF strip(Head(lines)) # <<>>
         THEN <<lstrip(Head(lines))>> \o stripped_nonempty_lstrip(Tail(lines))
    ELSE stripped_nonempty_lstrip(Tail(lines))

\* [cmd.strip() for cmd in lines if cmd.strip()]
RECURSIVE stripped_nonempty(_)
stripped_nonempty(lines) ==
    IF lines = <<>> THEN <<>>
    ELSE IF strip(Head(lines)) # <<>>
         THEN <<strip(Head(lines))>> \o stripped_nonempty(Tail(lines))
    ELSE stripped_nonempty(Tail(lines))

split_commands(text) ==
    IF contains(text, SENTINEL) THEN <<text>>
    ELSE stripped_nonempty(splitlines(text))

-----------------------------------------------------------------------------
(* parse_command_parameters                                                *)

\* an Optional[str]
None == [some |-> FALSE, v |-> <<>>]
Some(x) == [some |-> TRUE, v |-> x]

\* value or ""
or_empty(opt) == IF opt.some THEN opt.v ELSE <<>>

\* an insertion-ordered dict as the sequence of its items: d[key] = value keeps
\* the position of a key that is already present
dict_names(d) == {d[n].name : n \in 1..Len(d)}

\* mutant: a list of items instead of a dict: a repeated key is added again
dict_set_append(d, key, value) == Append(d, [name |-> key, value |-> value])

dict_set(d, key, value) ==
    IF key \in dict_names(d)
    THEN [n \in 1..Len(d) |->
            IF d[n].name = key THEN [name |-> key, value |-> value] ELSE d[n]]
    ELSE Append(d, [name |-> key, value |-> value])

\* position of the first "=" of part (part.split('=', 1)); 0 when there is none
RECURSIVE first_eq(_, _)
first_eq(part, p) ==
    IF p > Len(part) THEN 0
    ELSE IF part[p] = "=" THEN p
    ELSE first_eq(part, p + 1)

FLAG_PREFIX == <<"-", "-">>

\* the body of the loop over parts: st holds base_command, params, current_param
\* and bracket_params
parse_part(st, part) ==
    LET br == [st EXCEPT !.bracket_params = @ \o findall(part)]
        e  == first_eq(part, 1)
    IN  IF startswith(part, FLAG_PREFIX)
        THEN IF e > 0
             THEN [br EXCEPT !.params =
                       dict_set(@, SubSeq(part, 3, e - 1),
                                Some(SubSeq(part, e + 1, Len(part))))]
             ELSE [br EXCEPT !.current_param = Some(SubSeq(part, 3, Len(part))),
                             !.params = dict_set(@, SubSeq(part, 3, Len(part)), None)]
        ELSE IF br.current_param.some
             THEN [br EXCEPT !.params = dict_set(@, br.current_param.v, Some(part)),
                             !.current_param = None]
             ELSE [br EXCEPT !.base_command = Append(@, part)]

RECURSIVE parse_loop(_, _, _)
parse_loop(parts, n, st) ==
    IF n > Len(parts) THEN st
    ELSE parse_loop(parts, n + 1, parse_part(st, parts[n]))

\* returns base_command (joined by single spaces), params, bracket_params
parse_command_parameters(command) ==
    LET st == parse_loop(split(command), 1,
                         [base_command |-> <<>>, params |-> <<>>,
                          current_param |-> None, bracket_params |-> <<>>])
    IN  [base_command   |-> join(st.base_command, <<" ">>),
         params         |-> st.params,
         bracket_params |-> st.bracket_params]

-----------------------------------------------------------------------------
(* get_parameter_info: the text the model returns is a sequence of chunks: *)
(* the fence openers, white space, prose, and whole JSON documents.        *)

FENCE_JSON == "FENCE_JSON"      \* three backticks followed by json
FENCE      == "FENCE"           \* three backticks
BLANK      == "BLANK"           \* white space
PROSE      == "PROSE"           \* text that is not JSON

\* JSON values as json.loads returns them. A dict is the sequence of its items.
json_info(description, examples, default) ==
    [kind |-> "dict", description |-> description, examples |-> examples,
     default |-> default]

json_scalar(kind) ==
    [kind |-> kind, description |-> None, examples |-> <<>>, default |-> None]

json_dict(items) == [kind |-> "dict", items |-> items]

json_other(kind) == [kind |-> kind, items |-> <<>>]

\* the JSON documents in use, by chunk
JSON_DOCS ==
    [J_FULL  |-> json_dict(<<[name |-> <<"A">>,
                              value |-> json_info(Some(<<"d", "s", "c">>),
                                                  <<<<"e">>>>, Some(<<"d">>))]>>),
     J_EMPTY |-> json_dict(<<>>),
     J_ENTRY |-> json_dict(<<[name |-> <<"A">>, value |-> json_scalar("str")]>>),
     J_LIST  |-> json_other("list"),
     J_NULL  |-> json_other("null")]

CHUNKS == {FENCE_JSON, FENCE, BLANK, PROSE} \cup DOMAIN JSON_DOCS

\* position of the first chunk of text at or after p that is in fences; Len+1 if none
RECURSIVE first_chunk(_, _, _)
first_chunk(text, fences, p) ==
    IF p > Len(text) THEN Len(text) + 1
    ELSE IF text[p] \in fences THEN p
    ELSE first_chunk(text, fences, p + 1)

RECURSIVE strip_chunks(_)
strip_chunks(text) ==
    IF text # <<>> /\ Head(text) = BLANK THEN strip_chunks(Tail(text))
    ELSE IF text # <<>> /\ text[Len(text)] = BLANK
         THEN strip_chunks(SubSeq(text, 1, Len(text) - 1))
    ELSE text

\* the part handed to json.loads
json_part(text) ==
    IF FENCE_JSON \in Range(text)
    THEN LET a == first_chunk(text, {FENCE_JSON}, 1)
             b == first_chunk(text, {FENCE_JSON, FENCE}, a + 1)
         IN  strip_chunks(SubSeq(text, a + 1, b - 1))
    ELSE IF FENCE \in Range(text)
    THEN LET a == first_chunk(text, {FENCE}, 1)
             b == first_chunk(text, {FENCE}, a + 1)
         IN  strip_chunks(SubSeq(text, a + 1, b - 1))
    ELSE strip_chunks(text)

\* json.loads raises unless the part is one JSON document
json_loads_raises(part) == ~(Len(part) = 1 /\ part[1] \in DOMAIN JSON_DOCS)

\* the try/except around the extraction: the parsed value, whatever it is, or {}
\* with a warning
get_parameter_info(text) ==
    LET part == json_part(text)
    IN  IF json_loads_raises(part)
        THEN [info |-> json_dict(<<>>), warning |-> TRUE]
        ELSE [info |-> JSON_DOCS[part[1]], warning |-> FALSE]

-----------------------------------------------------------------------------
(* The collaborators' answers.                                             *)

\* what the user types at a Prompt.ask
INPUTS == {<<>>, <<"x">>, <<"[", "B", "]">>}

\* Prompt.ask(text, default=d): the typed text, or the default for an empty line
ask(typed, default) == IF typed = <<>> THEN default ELSE typed

\* the texts describeParameters may return
RECURSIVE chunk_texts(_)
chunk_texts(n) ==
    IF n = 0 THEN {<<>>}
    ELSE LET shorter == chunk_texts(n - 1)
         IN  shorter \cup {Append(t, c) : t \in {u \in shorter : Len(u) = n - 1},
                                          c \in CHUNKS}

META_TEXTS == chunk_texts(MaxChunks)

\* what get_parameter_info makes of them
META_RESULTS == {get_parameter_info(text) : text \in META_TEXTS}

-----------------------------------------------------------------------------
(* prompt_for_parameters and handle_command_result                         *)

NO_CALL ==
    [command |-> <<>>, base_command |-> <<>>, params |-> <<>>,
     bracket_params |-> <<>>, parameter_info |-> json_dict(<<>>), k |-> 0,
     command_with_replacements |-> <<>>, updated_params |-> <<>>]

\* parameter_info.get(param, {})
RECURSIVE dict_get(_, _, _)
dict_get(items, key, default) ==
    IF items = <<>> THEN default
    ELSE IF Head(items).name = key THEN Head(items).value
    ELSE dict_get(Tail(items), key, default)

info_of(parameter_info, param) ==
    dict_get(parameter_info.items, param, json_info(None, <<>>, None))

\* the lines before Prompt.ask raise AttributeError: .get of a value that is no dict
lookup_raises(parameter_info, param) ==
    \/ parameter_info.kind # "dict"
    \/ info_of(parameter_info, param).kind # "dict"

\* [cmd] if '[' in command or '--' in command
needs_prompting(command) ==
    contains(command, <<"[">>) \/ contains(command, FLAG_PREFIX)

\* mutant: the regular parameters are looked at before the bracket section
resolution_mode_bound_first(params, bracket_params) ==
    IF params = <<>> /\ bracket_params = <<>> THEN "none"
    ELSE IF params # <<>> THEN "bound"
    ELSE "placeholder"

\* which branch prompt_for_parameters takes: the early return, the bracket
\* section, or the regular parameters
resolution_mode(params, bracket_params) ==
    IF params = <<>> /\ bracket_params = <<>> THEN "none"
    ELSE IF bracket_params # <<>> THEN "placeholder"
    ELSE "bound"

\* mutant: without the "if value" test
RECURSIVE reconstruct_keep_empty(_, _)
reconstruct_keep_empty(reconstructed_command, updated_params) ==
    IF updated_params = <<>> THEN reconstructed_command
    ELSE LET item == Head(updated_params)
         IN  reconstruct_keep_empty(
                 reconstructed_command \o <<" ">> \o FLAG_PREFIX \o item.name
                     \o <<"=">> \o item.value,
                 Tail(updated_params))

\* the rebuilt command of bound-parameter mode
RECURSIVE reconstruct(_, _)
reconstruct(reconstructed_command, updated_params) ==
    IF updated_params = <<>> THEN reconstructed_command
    ELSE LET item == Head(updated_params)
         IN  reconstruct(
                 IF item.value # <<>>
                 THEN reconstructed_command \o <<" ">> \o FLAG_PREFIX \o item.name
                          \o <<"=">> \o item.value
                 ELSE reconstructed_command,
                 Tail(updated_params))

\* the choices of the copy/run prompt
action_choices == (IF clipboard THEN {"copy"} ELSE {}) \cup {"run"}

\* the first loop appends a command and goes on: to the next command, or to the
\* second loop
Processed(final) ==
    /\ processed_commands' = Append(processed_commands, final)
    /\ IF i < Len(commands)
       THEN i' = i + 1 /\ pc' = "process"
       ELSE i' = 1 /\ pc' = "ask_action"

\* the placeholder loop reaches bracket_params[k]: the prompt, the AttributeError,
\* or the return after the last one
EnterPlaceholder(frame) ==
    IF frame.k > Len(frame.bracket_params)
    THEN /\ Processed(frame.command_with_replacements)
         /\ pfp' = frame
    ELSE /\ pfp' = frame
         /\ pc' = IF lookup_raises(frame.parameter_info, frame.bracket_params[frame.k])
                  THEN "crashed" ELSE "ask_placeholder"
         /\ UNCHANGED <<processed_commands, i>>

\* handle_command_result up to its first loop
HandleStart ==
    /\ pc = "start"
    /\ commands' = split_commands(result)
    /\ IF commands' = <<>> THEN pc' = "done"
       ELSE IF commands'[1] = SENTINEL THEN pc' = "done"
       ELSE pc' = "process"
    /\ i' = 1
    /\ UNCHANGED <<result, clipboard, processed_commands, pfp, asked, effects,
                   warned, rejoined>>

\* one round of the first loop, up to the model call or the first prompt
ProcessCommand ==
    /\ pc = "process"
    /\ LET command == commands[i]
           parsed  == parse_command_parameters(command)
           frame   == [NO_CALL EXCEPT !.command = command,
                                      !.base_command = parsed.base_command,
                                      !.params = parsed.params,
                                      !.bracket_params = parsed.bracket_params,
                                      !.command_with_replacements = command,
                                      !.k = 1]
           mode    == resolution_mode(parsed.params, parsed.bracket_params)
       IN  IF ~needs_prompting(command)
           THEN Processed(command) /\ UNCHANGED pfp
           ELSE /\ pfp' = frame
                /\ IF mode = "placeholder"
                   THEN pc' = "describe" /\ UNCHANGED <<processed_commands, i>>
                   ELSE IF mode = "none"
                   THEN Processed(command)
                   ELSE pc' = "ask_bound" /\ UNCHANGED <<processed_commands, i>>
    /\ UNCHANGED <<result, clipboard, commands, asked, effects, warned, rejoined>>

\* the model answers get_parameter_info's call
DescribeParameters ==
    /\ pc = "describe"
    /\ \E got \in META_RESULTS :
          /\ warned' = warned + (IF got.warning THEN 1 ELSE 0)
          /\ EnterPlaceholder([pfp EXCEPT !.parameter_info = got.info])
    /\ UNCHANGED <<result, clipboard, commands, asked, effects, rejoined>>

\* the user answers the prompt of bracket_params[k]
AnswerPlaceholder ==
    /\ pc = "ask_placeholder"
    /\ \E typed \in INPUTS :
          LET param == pfp.bracket_params[pfp.k]
              info  == info_of(pfp.parameter_info, param)
              value == ask(typed, or_empty(info.default))
          IN  /\ asked' = Append(asked, [kind |-> "placeholder", command |-> i,
                                         name |-> param, value |-> value])
              /\ EnterPlaceholder(
                     [pfp EXCEPT !.command_with_replacements =
                                     replace(@, bracketed(param), value),
                                 !.k = @ + 1])
    /\ UNCHANGED <<result, clipboard, commands, effects, warned, rejoined>>

\* the user answers the prompt of the k-th bound parameter
AnswerBound ==
    /\ pc = "ask_bound"
    /\ \E typed \in INPUTS :
          LET item    == pfp.params[pfp.k]
              value   == ask(typed, or_empty(item.value))
              updated == Append(pfp.updated_params,
                                [name |-> item.name, value |-> value])
          IN  /\ asked' = Append(asked, [kind |-> "bound", command |-> i,
                                         name |-> item.name, value |-> value])
              /\ pfp' = [pfp EXCEPT !.updated_params = updated, !.k = @ + 1]
              /\ IF pfp.k = Len(pfp.params)
                 THEN Processed(reconstruct(pfp.base_command, updated))
                 ELSE UNCHANGED <<pc, processed_commands, i>>
    /\ UNCHANGED <<result, clipboard, commands, effects, warned, rejoined>>

\* the user answers the copy/run prompt of processed_commands[i]
ChooseAction ==
    /\ pc = "ask_action"
    /\ \E choice \in action_choices :
          /\ asked' = Append(asked, [kind |-> "action", command |-> i,
                                     name |-> <<>>, value |-> <<choice>>])
          /\ effects' = Append(effects, [op |-> choice, command |-> i,
                                         text |-> processed_commands[i]])
          /\ IF i = Len(processed_commands)
             THEN pc' = "done" /\ UNCHANGED i
             ELSE IF choice = "run"
             THEN pc' = "ask_confirm" /\ UNCHANGED i
             ELSE pc' = "ask_action" /\ i' = i + 1
    /\ UNCHANGED <<result, clipboard, commands, processed_commands, pfp, warned,
                   rejoined>>

\* mutant: the answer to the confirmation is not looked at
ConfirmNext_ignored ==
    /\ pc = "ask_confirm"
    /\ \E yes \in BOOLEAN :
          /\ asked' = Append(asked, [kind |-> "confirm", command |-> i,
                                     name |-> <<>>,
                                     value |-> <<IF yes THEN "y" ELSE "n">>])
          /\ pc' = "ask_action" /\ i' = i + 1
    /\ UNCHANGED <<result, clipboard, commands, processed_commands, pfp, effects,
                   warned, rejoined>>

\* the user answers "Continue with the next command?"
ConfirmNext ==
    /\ pc = "ask_confirm"
    /\ \E yes \in BOOLEAN :
          /\ asked' = Append(asked, [kind |-> "confirm", command |-> i,
                                     name |-> <<>>,
                                     value |-> <<IF yes THEN "y" ELSE "n">>])
          /\ IF yes THEN pc' = "ask_action" /\ i' = i + 1
                    ELSE pc' = "done" /\ UNCHANGED i
    /\ UNCHANGED <<result, clipboard, commands, processed_commands, pfp, effects,
                   warned, rejoined>>

Next ==
    \/ HandleStart
    \/ ProcessCommand
    \/ DescribeParameters
    \/ AnswerPlaceholder
    \/ AnswerBound
    \/ ChooseAction
    \/ ConfirmNext

\* the state handle_command_result is entered in
Entered(texts, pyperclip) ==
    /\ result \in texts
    /\ clipboard \in pyperclip
    /\ pc = "start"
    /\ commands = <<>>
    /\ processed_commands = <<>>
    /\ i = 0
    /\ pfp = NO_CALL
    /\ asked = <<>>
    /\ effects = <<>>
    /\ warned = 0
    /\ rejoined = <<>>

-----------------------------------------------------------------------------
(* The inputs of the three studies.                                        *)

\* all sequences of 1..n elements of set
RECURSIVE seqs_upto(_, _)
seqs_upto(set, n) ==
    IF n = 0 THEN {<<>>}
    ELSE LET shorter == seqs_upto(set, n - 1)
         IN  shorter \cup {Append(t, c) : t \in {u \in shorter : Len(u) = n - 1},
                                          c \in set}

\* "".join(pieces)
RECURSIVE concat(_)
concat(pieces) == IF pieces = <<>> THEN <<>> ELSE Head(pieces) \o concat(Tail(pieces))

NEWLINE == <<"\n">>

\* the pipeline study: the model's answer is up to MaxCmds of these lines;
\* generate_gcloud_command strips it
PIPE_LINES ==
    { <<"l", "s">>,
      <<"c", "p", " ", "[", "A", "]">>,
      <<"r", "m", " ", "-", "-", "n", "=", "v">>,
      SENTINEL }

PIPE_TEXTS ==
    {strip(join(ls, NEWLINE)) : ls \in seqs_upto(PIPE_LINES, MaxCmds) \ {<<>>}}

\* the resolver study: one command of up to MaxTokens of these tokens, or an
\* example
TOKENS ==
    { <<"l", "s">>,
      <<"[", "A", "]">>,
      <<"[", "B", "]">>,
      <<"-", "-", "z", "=", "[", "A", "]">>,
      <<"-", "-", "z", "=", "w">>,
      <<"-", "-", "n", "=", "v">>,
      <<"-", "-", "n", "=">>,
      <<"-", "-", "n">> }

\* the third example of create_prompt, its words shortened, and a command with
\* [A] three times and [B] once
EXAMPLE_COMMANDS ==
    {
      <<"v", "m", " ", "c", "r", "e", "a", "t", "e", " ", "[", "I", "N", "S", "T",
        "A", "N", "C", "E", "_", "N", "A", "M", "E", "]", " ", "-", "-", "z", "o",
        "n", "e", "=", "[", "Z", "O", "N", "E", "]", " ", "-", "-", "t", "y", "p",
        "e", "=", "e", "2">>,
      <<"c", "p", " ", "[", "A", "]", "[", "A", "]", " ", "-", "-", "z", "=", "[",
        "A", "]", " ", "[", "B", "]">> }

RESOLVE_TEXTS ==
    {join(ts, <<" ">>) : ts \in seqs_upto(TOKENS, MaxTokens) \ {<<>>}}
        \cup EXAMPLE_COMMANDS

\* the split study: any text of up to MaxPieces of these pieces
PIECES ==
    { <<"R", "e", "q", "u", "e", "s", "t", " ", "c", "a", "n", "n", "o", "t">>,
      <<" ", "b", "e", " ", "f", "u", "l", "f", "i", "l", "l", "e", "d", ".">>,
      <<"l", "s">>,
      <<" ">>,
      <<"\n">>,
      <<"\r">> }

SPLIT_TEXTS == {concat(ps) : ps \in seqs_upto(PIECES, MaxPieces)}

-----------------------------------------------------------------------------
(* The specifications.                                                     *)

Init == Entered(PIPE_TEXTS, BOOLEAN)

Spec == Init /\ [][Next]_vars

\* prompt_for_parameters on single commands: the run ends with the final command
\* in processed_commands, before the copy/run prompt
InitResolve == Entered(RESOLVE_TEXTS, {TRUE})

NextResolve ==
    \/ HandleStart
    \/ ProcessCommand
    \/ DescribeParameters
    \/ AnswerPlaceholder
    \/ AnswerBound

SpecResolve == InitResolve /\ [][NextResolve]_vars

\* split_commands as a function: applied to a text, then to the newline-joined
\* result
InitSplit == Entered(SPLIT_TEXTS, {TRUE})

ApplySplit ==
    /\ pc = "start"
    /\ commands' = split_commands(result)
    /\ pc' = "split"
    /\ UNCHANGED <<result, clipboard, processed_commands, i, pfp, asked, effects,
                   warned, rejoined>>

ApplySplitAgain ==
    /\ pc = "split"
    /\ rejoined' = split_commands(join(commands, NEWLINE))
    /\ pc' = "rejoined"
    /\ UNCHANGED <<result, clipboard, commands, processed_commands, i, pfp, asked,
                   effects, warned>>

NextSplit == ApplySplit \/ ApplySplitAgain

SpecSplit == InitSplit /\ [][NextSplit]_vars

-----------------------------------------------------------------------------
(* What the claims are stated with.                                        *)

\* s without its white space
no_ws(s) == SelectSeq(s, LAMBDA c : c \notin WHITESPACE)

\* the positions of text where a non-blank line has its first non-blank character
line_starts(text) ==
    {p \in 1..Len(text) :
        /\ text[p] \notin WHITESPACE
        /\ \A q \in 1..(p - 1) :
              (\A r \in q..(p - 1) : text[r] \notin LINE_BREAKS)
                  => text[q] \in WHITESPACE}

-----------------------------------------------------------------------------
(* C3 and C10: split_commands (under SpecSplit)                            *)

\* C3: a raw text that contains the sentinel phrase anywhere splits into exactly
\* one element, and that element is the sentinel phrase itself.
C3_SentinelPrecedence ==
    (pc # "start" /\ contains(result, SENTINEL)) => commands = <<SENTINEL>>

\* C10: for a text without the sentinel, splitting the newline-joined split gives
\* the same sequence; the split is the trimmed non-empty lines of the text in
\* their order (each one non-empty, trimmed, free of line breaks and a piece of
\* the text; together all of the text's non-blank characters in order; one per
\* non-blank line), and an all-blank text gives the empty sequence.
C10_SplitIdempotent ==
    (pc = "rejoined" /\ ~contains(result, SENTINEL)) =>
        /\ rejoined = commands
        /\ \A n \in 1..Len(commands) :
              /\ commands[n] # <<>>
              /\ commands[n][1] \notin WHITESPACE
              /\ commands[n][Len(commands[n])] \notin WHITESPACE
              /\ Range(commands[n]) \cap LINE_BREAKS = {}
              /\ contains(result, commands[n])
        /\ no_ws(concat(commands)) = no_ws(result)
        /\ Len(commands) = Cardinality(line_starts(result))
        /\ (Range(result) \subseteq WHITESPACE => commands = <<>>)

\* C10's case: a multi-line text whose lines needed trimming or dropping
C10_Witness ==
    /\ pc = "rejoined"
    /\ ~contains(result, SENTINEL)
    /\ Len(commands) >= 2
    /\ join(commands, NEWLINE) # result
    /\ rejoined = commands

-----------------------------------------------------------------------------
(* C4 and C8: handle_command_result (under Spec)                           *)

is_action(e)  == e.kind = "action"
is_confirm(e) == e.kind = "confirm"
is_param(e)   == e.kind \in {"placeholder", "bound"}
said_yes(e)   == is_confirm(e) /\ e.value = <<"y">>
said_no(e)    == is_confirm(e) /\ e.value = <<"n">>

\* C4: a raw text that contains the sentinel phrase ends the request: nothing is
\* classified, no parameter prompt and no copy/run prompt is asked, and nothing
\* reaches the clipboard or the shell.
C4_SentinelTerminal ==
    contains(result, SENTINEL) =>
        /\ pc \in {"start", "done"}
        /\ processed_commands = <<>>
        /\ pfp = NO_CALL
        /\ asked = <<>>
        /\ effects = <<>>

\* what C8 and its amended form share: copy/run is done one command at a time in
\* the Splitter's order, each on that command's final string; a confirmation of
\* "no" is the last thing asked and ends the batch
C8_InOrder ==
    /\ \A n \in 1..Len(effects) :
          /\ effects[n].command = n
          /\ effects[n].text = processed_commands[n]
    /\ \A n \in 1..Len(asked) :
          /\ (is_action(asked[n]) /\ (n = 1 \/ is_param(asked[n - 1])))
                => asked[n].command = 1
          /\ said_no(asked[n]) => (n = Len(asked) /\ pc = "done")

\* C8 as stated: the copy/run prompt of command j > 1 is not reached before the
\* user has answered yes to the confirmation that follows command j - 1.
C8_AdvanceOnlyAfterYes ==
    /\ C8_InOrder
    /\ \A n \in 1..Len(asked) :
          (asked[n].command > 1 /\ is_action(asked[n])) =>
              \E m \in 1..(n - 1) :
                  said_yes(asked[m]) /\ asked[m].command = asked[n].command - 1

\* C8, amended: the parameter prompts of all commands come first, in the
\* Splitter's order and with no confirmation between commands; then copy/run is
\* asked one command at a time in order. The confirmation is asked exactly after
\* a run of a command that is not the last, and only a yes lets the next command
\* be acted on; after a copy the next command follows with no confirmation.
C8_BatchSequencing ==
    /\ C8_InOrder
    /\ \A n \in 1..Len(asked) : \A m \in (n + 1)..Len(asked) :
          /\ ~is_param(asked[n]) => ~is_param(asked[m])
          /\ (is_param(asked[n]) /\ is_param(asked[m]))
                => asked[n].command <= asked[m].command
    /\ \A n \in 1..Len(asked) :
          /\ (is_action(asked[n]) /\ asked[n].command > 1) =>
                /\ n > 1
                /\ asked[n - 1].command = asked[n].command - 1
                /\ \/ said_yes(asked[n - 1])
                   \/ is_action(asked[n - 1]) /\ asked[n - 1].value = <<"copy">>
          /\ is_confirm(asked[n]) =>
                /\ n > 1
                /\ is_action(asked[n - 1])
                /\ asked[n - 1].value = <<"run">>
                /\ asked[n - 1].command = asked[n].command
                /\ asked[n].command < Len(commands)
          /\ (is_action(asked[n]) /\ asked[n].value = <<"run">>
                /\ asked[n].command < Len(commands)) =>
                /\ n = Len(asked) => pc = "ask_confirm"
                /\ n < Len(asked) => is_confirm(asked[n + 1])

\* C8's case: in a batch, the first command was run and the user declined to
\* continue, so the batch ended with the later command untouched
C8_Witness ==
    /\ Len(commands) >= 2
    /\ pc = "done"
    /\ Len(effects) = 1
    /\ effects[1].op = "run"
    /\ asked # <<>>
    /\ said_no(asked[Len(asked)])

-----------------------------------------------------------------------------
(* What the resolver's claims are stated with.                             *)

\* the names of seq, each once, in the order of their first occurrence
RECURSIVE distinct_in_order(_, _)
distinct_in_order(seq, seen) ==
    IF seq = <<>> THEN <<>>
    ELSE IF Head(seq) \in seen THEN distinct_in_order(Tail(seq), seen)
    ELSE <<Head(seq)>> \o distinct_in_order(Tail(seq), seen \cup {Head(seq)})

\* the prompts of one kind answered for command c, in the order asked
entries(c, kind) == SelectSeq(asked, LAMBDA e : e.kind = kind /\ e.command = c)

names_of(es) == [n \in 1..Len(es) |-> es[n].name]

\* the value the user gave for name: the answer to its first prompt
first_answer(es, name) ==
    es[CHOOSE n \in 1..Len(es) :
          es[n].name = name /\ \A m \in 1..(n - 1) : es[m].name # name].value

\* the template with every [NAME] token replaced, in one pass, by the value given
\* for NAME; all other text is copied
RECURSIVE substituted(_, _, _)
substituted(template, p, es) ==
    LET found == {n \in p..Len(template) : match_at(template, n)}
    IN  IF found = {} THEN suffix(template, p)
        ELSE LET m == least(found)
                 n == upper_run(template, m + 1)
             IN  slice(template, p, m)
                     \o first_answer(es, SubSeq(template, m + 1, m + n))
                     \o substituted(template, m + n + 2, es)

is_flag(token) == startswith(token, FLAG_PREFIX)

\* the flag tokens of a command, in order
flag_tokens(command) == SelectSeq(split(command), is_flag)

\* the name of a flag token: what follows the prefix, up to the first "="
flag_name(token) ==
    IF first_eq(token, 1) > 0 THEN SubSeq(token, 3, first_eq(token, 1) - 1)
    ELSE SubSeq(token, 3, Len(token))

\* the value of a --name=value token
flag_value(token) == SubSeq(token, first_eq(token, 1) + 1, Len(token))

\* the name=value pairs a command contains
pairs(command) ==
    {<<flag_name(t), flag_value(t)>> :
        t \in {u \in Range(flag_tokens(command)) : first_eq(u, 1) > 0}}

\* the value of the last --name=value token of the command with this name
last_value(command, name) ==
    LET ts == SelectSeq(flag_tokens(command), LAMBDA t : flag_name(t) = name)
    IN  flag_value(ts[Len(ts)])

\* the commands C5 is about: base tokens and --name=value tokens, no placeholder
only_bound_pairs(command) ==
    /\ findall(command) = <<>>
    /\ \A t \in Range(flag_tokens(command)) : first_eq(t, 1) > 0

\* the user left every bound value of command c as it was
accepted_defaults(c) ==
    \A e \in Range(entries(c, "bound")) : e.value = last_value(commands[c], e.name)

\* " --name=value" for every answer that is not empty, in the order asked
RECURSIVE flags_text(_)
flags_text(es) ==
    IF es = <<>> THEN <<>>
    ELSE (IF Head(es).value # <<>>
          THEN <<" ">> \o FLAG_PREFIX \o Head(es).name \o <<"=">> \o Head(es).value
          ELSE <<>>) \o flags_text(Tail(es))

done_commands == 1..Len(processed_commands)

-----------------------------------------------------------------------------
(* C1, C2, C5, C6, C7, C9: prompt_for_parameters (under SpecResolve)       *)

\* C1 (its replacement clause): in placeholder mode the final string is the
\* template with every occurrence of each [NAME] replaced by the value the user
\* gave for NAME, and all other text exactly the template's.
C1_PlaceholderSubstitution ==
    \A c \in done_commands :
        findall(commands[c]) # <<>> =>
            processed_commands[c] =
                substituted(commands[c], 1, entries(c, "placeholder"))

\* C2: the placeholder list of a command is its distinct placeholder names in
\* first-occurrence order, so each name is asked for exactly once.
C2_DistinctPlaceholders ==
    /\ pfp.command # <<>> =>
          pfp.bracket_params = distinct_in_order(findall(pfp.command), {})
    /\ \A c \in 1..Len(commands) :
          LET es == entries(c, "placeholder")
          IN  \A n \in 1..Len(es) : \A m \in 1..Len(es) :
                  es[n].name = es[m].name => n = m

\* C5 as stated: a command of base tokens and --name=value tokens, rebuilt with
\* every bound value left unchanged, contains exactly the name=value pairs of
\* the command and no placeholder.
C5_RoundTrip ==
    \A c \in done_commands :
        (only_bound_pairs(commands[c]) /\ accepted_defaults(c)) =>
            /\ pairs(processed_commands[c]) = pairs(commands[c])
            /\ findall(processed_commands[c]) = <<>>

\* C5, amended: the rebuilt command contains, for each flag name, exactly the
\* pair of the name's last --name=value token, provided that value is not
\* empty: a repeated name keeps only its last value, a name whose last value is
\* empty is dropped; each name occurs once, and there is no placeholder.
C5_RoundTripLastNonEmpty ==
    \A c \in done_commands :
        (only_bound_pairs(commands[c]) /\ accepted_defaults(c)) =>
            /\ pairs(processed_commands[c]) =
                  {pr \in pairs(commands[c]) :
                      pr[2] # <<>> /\ pr[2] = last_value(commands[c], pr[1])}
            /\ Len(flag_tokens(processed_commands[c])) =
                  Cardinality(pairs(processed_commands[c]))
            /\ findall(processed_commands[c]) = <<>>

\* C5's case: a command with a repeated flag name or an empty value was rebuilt
\* with all defaults accepted, and kept some pair
C5_Witness ==
    /\ 1 \in done_commands
    /\ only_bound_pairs(commands[1])
    /\ accepted_defaults(1)
    /\ Len(entries(1, "bound")) >= 2
    /\ pairs(processed_commands[1]) # {}
    /\ pairs(processed_commands[1]) # pairs(commands[1])

\* C6: whatever text describeParameters returns, the pipeline is not aborted:
\* text that cannot be used gives an empty mapping (with a warning), and every
\* placeholder is still prompted for.
C6_MetadataFallback ==
    /\ pc # "crashed"
    /\ \/ pfp.parameter_info = json_dict(<<>>)
       \/ /\ pfp.parameter_info.kind = "dict"
          /\ \A n \in 1..Len(pfp.parameter_info.items) :
                pfp.parameter_info.items[n].value.kind = "dict"

\* C7: the mode follows from the classification. With a placeholder, only
\* placeholder prompts are asked and every flag token without a placeholder is
\* in the final string as it was; bound-parameter prompts are asked only with no
\* placeholder and a bound param, then one per bound param in insertion order;
\* with neither, nothing is asked and the command is returned unchanged.
C7_ModePrecedence ==
    /\ pc = "ask_bound" => findall(commands[i]) = <<>>
    /\ pc \in {"describe", "ask_placeholder"} => findall(commands[i]) # <<>>
    /\ \A c \in 1..Len(commands) :
          LET command  == commands[c]
              flags    == flag_tokens(command)
              has_ph   == findall(command) # <<>>
              has_flag == flags # <<>>
              ph       == entries(c, "placeholder")
              bd       == entries(c, "bound")
          IN  /\ has_ph => bd = <<>>
              /\ ph # <<>> => has_ph
              /\ bd # <<>> => (~has_ph /\ has_flag)
              /\ (has_ph /\ c \in done_commands) =>
                    \A t \in Range(flags) :
                        findall(t) = <<>> =>
                            t \in Range(split(processed_commands[c]))
              /\ (~has_ph /\ has_flag /\ c \in done_commands) =>
                    names_of(bd) =
                        distinct_in_order(
                            [n \in 1..Len(flags) |-> flag_name(flags[n])], {})
              /\ (~has_ph /\ ~has_flag) =>
                    /\ ph = <<>> /\ bd = <<>>
                    /\ c \in done_commands => processed_commands[c] = command

\* C7's case: a command with a placeholder and a flag token that has none went
\* through placeholder mode
C7_Witness ==
    /\ 1 \in done_commands
    /\ findall(commands[1]) # <<>>
    /\ \E t \in Range(flag_tokens(commands[1])) : findall(t) = <<>>
    /\ entries(1, "placeholder") # <<>>
    /\ processed_commands[1] # commands[1]

\* C9: the rebuilt command is baseCommand followed by " --name=value" for each
\* resolved bound param in insertion order whose value is not empty; a param
\* whose value is empty leaves neither --name= nor --name in the command.
C9_EmptyValueDropping ==
    \A c \in done_commands :
        LET bd == entries(c, "bound")
        IN  bd # <<>> =>
              /\ processed_commands[c] =
                    parse_command_parameters(commands[c]).base_command
                        \o flags_text(bd)
              /\ \A e \in Range(bd) : \A t \in Range(split(processed_commands[c])) :
                    e.value = <<>> =>
                        /\ t # FLAG_PREFIX \o e.name
                        /\ ~startswith(t, FLAG_PREFIX \o e.name \o <<"=">>)

\* C9's case: of two resolved bound params one is empty and one is not
C9_Witness ==
    /\ 1 \in done_commands
    /\ \E e \in Range(entries(1, "bound")) : e.value = <<>>
    /\ \E e \in Range(entries(1, "bound")) : e.value # <<>>

====
